---------------------------- MODULE Spec2Model ----------------------------
(***************************************************************************)
(* A model of the arithmetic compiler of src/main.c: tokenize, the Pratt   *)
(* parser, compile_ast_to_bytecode, run_vm, eval_ast and the glue of       *)
(* process_expression/main.                                                *)
(*                                                                         *)
(* Offsets, cursor, current_index, ip and const_index are 0-based as in    *)
(* the C code; a C array a[i] is the TLA+ sequence element a[i + 1].       *)
(***************************************************************************)
EXTENDS Integers, Sequences, FiniteSets, TLC

(***************************************************************************)
(* Program constants.                                                      *)
(***************************************************************************)
UNARY_DEFAULT == 10
MAX_STACK_SIZE == 255

(***************************************************************************)
(* Bounds of the model.                                                    *)
(*   MaxNum, MaxDen : the window of doubles whose arithmetic is modelled   *)
(*                    exactly (see the section on doubles).                *)
(***************************************************************************)
MaxNum == 1000000
MaxDen == 1024

(***************************************************************************)
(* Characters (<ctype.h> in the "C" locale).  A source text is a sequence  *)
(* of one-character strings.                                               *)
(***************************************************************************)
Digits == <<"0", "1", "2", "3", "4", "5", "6", "7", "8", "9">>

isdigit(c) == \E i \in 1..10 : Digits[i] = c

DigitVal(c) == (CHOOSE i \in 1..10 : Digits[i] = c) - 1

isspace(c) == c \in {" ", "\t", "\n", "\r", "\f"}

(***************************************************************************)
(* Doubles.                                                                *)
(*                                                                         *)
(* A double is modelled as a record [n, d]:                                *)
(*   d >= 1 : the finite non-zero value n/d in lowest terms, n # 0,        *)
(*            or +0.0 when n = 0 (then d = 1);                             *)
(*   NZero  : -0.0;  PInf, NInf : the infinities;  NaN : not-a-number;     *)
(*   Unrep  : a double outside the window that is modelled exactly.        *)
(* The window holds the dyadic rationals n/d with |n| <= MaxNum and        *)
(* d <= MaxDen a power of two: on these IEEE-754 binary64 arithmetic is    *)
(* exact whenever the exact result is again in the window, so + - * /      *)
(* fmod and pow below are what the hardware and libm compute.  A result    *)
(* outside the window (rounded, huge, or overflowed) is Unrep, and no step *)
(* of the machine is taken with it: the window is a bound on the runs      *)
(* explored, like a bound on a counter.                                    *)
(***************************************************************************)
PZero == [n |-> 0, d |-> 1]
NZero == [n |-> 0, d |-> -1]
PInf == [n |-> 1, d |-> 0]
NInf == [n |-> -1, d |-> 0]
NaN == [n |-> 0, d |-> 0]
Unrep == [n |-> 0, d |-> -2]
One == [n |-> 1, d |-> 1]

AbsI(x) == IF x < 0 THEN -x ELSE x

SgnI(x) == IF x < 0 THEN -1 ELSE 1

RECURSIVE GCD(_, _)
GCD(a, b) == IF b = 0 THEN a ELSE GCD(b, a % b)

RECURSIVE IsPow2(_)
IsPow2(k) == IF k = 1 THEN TRUE ELSE IF k % 2 # 0 THEN FALSE ELSE IsPow2(k \div 2)

IsNaN(v) == v = NaN
IsInf(v) == v = PInf \/ v = NInf
IsZero(v) == v = PZero \/ v = NZero
IsUnrep(v) == v = Unrep
IsNum(v) == v.d >= 1 /\ v.n # 0
SignBit(v) == v = NZero \/ v.n < 0
IsInteger(v) == IsZero(v) \/ (IsNum(v) /\ v.d = 1)
IsOddInteger(v) == IsNum(v) /\ v.d = 1 /\ v.n % 2 # 0

SignedZero(neg) == IF neg THEN NZero ELSE PZero
SignedInf(neg) == IF neg THEN NInf ELSE PInf

\* The double n/d (d >= 1, any common factor), or Unrep outside the window.
Mk(n, d) ==
    IF n = 0 THEN PZero
    ELSE LET g == GCD(AbsI(n), d)
             nn == n \div g
             dd == d \div g
         IN IF AbsI(nn) <= MaxNum /\ dd <= MaxDen /\ IsPow2(dd)
            THEN [n |-> nn, d |-> dd]
            ELSE Unrep

\* -x
FNeg(a) ==
    CASE IsUnrep(a) -> Unrep
      [] IsNaN(a) -> NaN
      [] IsZero(a) -> SignedZero(~SignBit(a))
      [] OTHER -> [n |-> -a.n, d |-> a.d]

\* x + y
FAdd(a, b) ==
    CASE IsUnrep(a) \/ IsUnrep(b) -> Unrep
      [] IsNaN(a) \/ IsNaN(b) -> NaN
      [] IsInf(a) /\ IsInf(b) -> IF a = b THEN a ELSE NaN
      [] IsInf(a) -> a
      [] IsInf(b) -> b
      [] IsZero(a) /\ IsZero(b) -> SignedZero(SignBit(a) /\ SignBit(b))
      [] IsZero(a) -> b
      [] IsZero(b) -> a
      [] OTHER -> Mk(a.n * b.d + b.n * a.d, a.d * b.d)

\* x - y
FSub(a, b) == FAdd(a, FNeg(b))

\* (n1/d1) * (n2/d2) for integers n1, n2 # 0 and d1, d2 >= 1, each fraction in
\* lowest terms: reduced crosswise first, so that no product is taken that
\* the window would not hold.
MulRaw(n1, d1, n2, d2) ==
    LET g1 == GCD(AbsI(n1), d2)
        g2 == GCD(AbsI(n2), d1)
        p == n1 \div g1
        q == n2 \div g2
        dd == (d1 \div g2) * (d2 \div g1)
    IN IF AbsI(p) > MaxNum \div AbsI(q) THEN Unrep ELSE Mk(p * q, dd)

\* x * y
FMul(a, b) ==
    LET neg == SignBit(a) # SignBit(b) IN
    CASE IsUnrep(a) \/ IsUnrep(b) -> Unrep
      [] IsNaN(a) \/ IsNaN(b) -> NaN
      [] (IsInf(a) /\ IsZero(b)) \/ (IsZero(a) /\ IsInf(b)) -> NaN
      [] IsInf(a) \/ IsInf(b) -> SignedInf(neg)
      [] IsZero(a) \/ IsZero(b) -> SignedZero(neg)
      [] OTHER -> MulRaw(a.n, a.d, b.n, b.d)

\* x / y
FDiv(a, b) ==
    LET neg == SignBit(a) # SignBit(b) IN
    CASE IsUnrep(a) \/ IsUnrep(b) -> Unrep
      [] IsNaN(a) \/ IsNaN(b) -> NaN
      [] (IsInf(a) /\ IsInf(b)) \/ (IsZero(a) /\ IsZero(b)) -> NaN
      [] IsInf(a) \/ IsZero(b) -> SignedInf(neg)
      [] IsInf(b) \/ IsZero(a) -> SignedZero(neg)
      [] OTHER -> MulRaw(a.n, a.d, SgnI(b.n) * b.d, AbsI(b.n))

\* fmod(x, y): x - y * trunc(x / y), with the sign of x
Ffmod(a, b) ==
    CASE IsUnrep(a) \/ IsUnrep(b) -> Unrep
      [] IsNaN(a) \/ IsNaN(b) -> NaN
      [] IsInf(a) \/ IsZero(b) -> NaN
      [] IsInf(b) \/ IsZero(a) -> a
      [] OTHER ->
            LET r == (AbsI(a.n) * b.d) % (AbsI(b.n) * a.d)
            IN IF r = 0 THEN SignedZero(SignBit(a))
               ELSE Mk(SgnI(a.n) * r, a.d * b.d)

\* acc * x^k for an integer k >= 0, stopping as soon as the window is left
RECURSIVE PowAcc(_, _, _)
PowAcc(x, k, acc) ==
    IF k = 0 \/ IsUnrep(acc) THEN acc ELSE PowAcc(x, k - 1, FMul(acc, x))

\* |x| compared with 1, for a finite non-zero x: -1, 0 or 1
CmpAbsOne(x) ==
    IF AbsI(x.n) < x.d THEN -1 ELSE IF AbsI(x.n) = x.d THEN 0 ELSE 1

\* pow(x, y), C99 F.9.4.4
Fpow(x, y) ==
    CASE IsUnrep(x) \/ IsUnrep(y) -> Unrep
      [] IsZero(y) -> One
      [] x = One -> One
      [] IsNaN(x) \/ IsNaN(y) -> NaN
      [] IsZero(x) ->
            IF SignBit(y)
            THEN (IF IsOddInteger(y) THEN SignedInf(SignBit(x)) ELSE PInf)
            ELSE (IF IsOddInteger(y) THEN x ELSE PZero)
      [] IsInf(y) ->
            IF IsInf(x) THEN (IF y = PInf THEN PInf ELSE PZero)
            ELSE IF CmpAbsOne(x) = 0 THEN One
            ELSE IF (CmpAbsOne(x) < 0) = (y = NInf) THEN PInf ELSE PZero
      [] x = NInf ->
            IF SignBit(y)
            THEN (IF IsOddInteger(y) THEN NZero ELSE PZero)
            ELSE (IF IsOddInteger(y) THEN NInf ELSE PInf)
      [] x = PInf -> IF SignBit(y) THEN PZero ELSE PInf
      [] ~IsInteger(y) -> IF SignBit(x) THEN NaN ELSE Unrep
      [] CmpAbsOne(x) = 0 -> IF IsOddInteger(y) THEN x ELSE One
      [] y.n > 0 -> PowAcc(x, y.n, One)
      [] OTHER -> FDiv(One, PowAcc(x, -y.n, One))

\* the C comparison x == y
FEq(a, b) ==
    IF IsNaN(a) \/ IsNaN(b) THEN FALSE
    ELSE IF IsZero(a) /\ IsZero(b) THEN TRUE
    ELSE a = b

(***************************************************************************)
(* strtod, as parse_number uses it: on a run of characters drawn from      *)
(* digits . e E + - (no white space, no letters but e/E).  It converts the *)
(* longest prefix that is a decimal floating literal                       *)
(*     [+-] digits [. digits] [ (e|E) [+-] digits ]                        *)
(* with at least one mantissa digit, and reports how many characters it    *)
(* consumed, whether the value is out of range (errno = ERANGE), and the   *)
(* value.                                                                  *)
(***************************************************************************)
RECURSIVE SkipDigits(_, _)
\* the first index >= i of s that holds no digit (Len(s) + 1 when none)
SkipDigits(s, i) ==
    IF i <= Len(s) /\ isdigit(s[i]) THEN SkipDigits(s, i + 1) ELSE i

RECURSIVE StripLeadingZeros(_)
StripLeadingZeros(ds) ==
    IF ds # <<>> /\ Head(ds) = "0" THEN StripLeadingZeros(Tail(ds)) ELSE ds

RECURSIVE StripTrailingZeros(_)
StripTrailingZeros(ds) ==
    IF ds # <<>> /\ ds[Len(ds)] = "0"
    THEN StripTrailingZeros(SubSeq(ds, 1, Len(ds) - 1))
    ELSE ds

RECURSIVE DigitsToInt(_)
\* the number a sequence of at most nine digits writes
DigitsToInt(ds) ==
    IF ds = <<>> THEN 0
    ELSE 10 * DigitsToInt(SubSeq(ds, 1, Len(ds) - 1)) + DigitVal(ds[Len(ds)])

RECURSIVE IPow(_, _)
IPow(b, k) == IF k = 0 THEN 1 ELSE b * IPow(b, k - 1)

RECURSIVE CmpDigits(_, _, _)
\* the decimal fractions 0.a and 0.b compared from digit i on: -1, 0 or 1
CmpDigits(a, b, i) ==
    IF i > Len(a) /\ i > Len(b) THEN 0
    ELSE LET x == IF i <= Len(a) THEN DigitVal(a[i]) ELSE 0
             y == IF i <= Len(b) THEN DigitVal(b[i]) ELSE 0
         IN IF x < y THEN -1 ELSE IF x > y THEN 1 ELSE CmpDigits(a, b, i + 1)

\* The leading digits of the least decimal that rounds to infinity
\* (DBL_MAX plus half an ulp, 1.797693134862315807...e308) and of the least
\* normal double (DBL_MIN, 2.2250738585072014e-308).
DblOverflowDigits ==
    <<"1", "7", "9", "7", "6", "9", "3", "1", "3", "4", "8", "6", "2", "3", "1",
      "5", "8", "0", "7", "9">>
DblMinDigits ==
    <<"2", "2", "2", "5", "0", "7", "3", "8", "5", "8", "5", "0", "7", "2", "0",
      "1", "4">>

\* the decimal exponent written by the digits ds, capped where it no longer
\* matters (past every double's range)
ExponentValue(ds) ==
    LET s == StripLeadingZeros(ds)
    IN IF Len(s) > 5 THEN 99999 ELSE DigitsToInt(s)

\* The value of the digits ms (no leading, no trailing zero, not empty) times
\* 10^e10, inside the range of the doubles: exact or Unrep.
DecimalValue(ms, e10) ==
    IF Len(ms) > 9 THEN Unrep
    ELSE LET m == DigitsToInt(ms)
         IN IF e10 >= 0
            THEN (IF e10 > 6 THEN Unrep
                  ELSE IF m > MaxNum \div IPow(10, e10) THEN Unrep
                  ELSE Mk(m * IPow(10, e10), 1))
            ELSE (IF -e10 > 12 THEN Unrep
                  ELSE IF m % IPow(5, -e10) # 0 THEN Unrep
                  ELSE Mk(m \div IPow(5, -e10), IPow(2, -e10)))

\* [end |-> characters consumed, erange |-> errno = ERANGE, val |-> result]
strtod(s) ==
    LET signed == s # <<>> /\ s[1] \in {"+", "-"}
        neg == signed /\ s[1] = "-"
        i == IF signed THEN 2 ELSE 1
        intEnd == SkipDigits(s, i)
        hasDot == intEnd <= Len(s) /\ s[intEnd] = "."
        fracEnd == IF hasDot THEN SkipDigits(s, intEnd + 1) ELSE intEnd
        nFrac == IF hasDot THEN fracEnd - (intEnd + 1) ELSE 0
        mant == SubSeq(s, i, intEnd - 1) \o SubSeq(s, intEnd + 1, fracEnd - 1)
        hasE == fracEnd <= Len(s) /\ s[fracEnd] \in {"e", "E"}
        expSigned == hasE /\ fracEnd + 1 <= Len(s) /\ s[fracEnd + 1] \in {"+", "-"}
        j == IF expSigned THEN fracEnd + 2 ELSE fracEnd + 1
        expEnd == IF hasE THEN SkipDigits(s, j) ELSE fracEnd
        hasExp == hasE /\ expEnd > j
        x == IF ~hasExp THEN 0
             ELSE IF s[fracEnd + 1] = "-"
                  THEN -ExponentValue(SubSeq(s, j, expEnd - 1))
                  ELSE ExponentValue(SubSeq(s, j, expEnd - 1))
        lead == StripLeadingZeros(mant)
        ms == StripTrailingZeros(lead)
        e10 == x - nFrac + (Len(lead) - Len(ms))
        order == Len(ms) - 1 + e10
        over == order > 308 \/ (order = 308 /\ CmpDigits(ms, DblOverflowDigits, 1) >= 0)
        under == order < -308 \/ (order = -308 /\ CmpDigits(ms, DblMinDigits, 1) < 0)
    IN IF mant = <<>>
       THEN [end |-> 0, erange |-> FALSE, val |-> PZero]
       ELSE [end |-> (IF hasExp THEN expEnd ELSE fracEnd) - 1,
             erange |-> ms # <<>> /\ (over \/ under),
             val |-> IF ms = <<>> THEN SignedZero(neg)
                     ELSE IF over \/ under THEN Unrep
                     ELSE IF neg THEN FNeg(DecimalValue(ms, e10))
                     ELSE DecimalValue(ms, e10)]

(***************************************************************************)
(* The state of one run of main on one expression.                         *)
(*   source      opts->expression, a sequence of characters                *)
(*   phase       where process_expression is:                              *)
(*                 "lex"    in tokenize's loop                             *)
(*                 "parse"  in parse (the frames of parse_expression and   *)
(*                          parse_prefix are in parser.frames)             *)
(*                 "parsed" parse has returned root                        *)
(*                 "compile" in compile_ast_to_bytecode                    *)
(*                 "vm"     in run_vm's loop                               *)
(*                 "eval"   run_vm has returned, eval_ast is next          *)
(*                 "assert" both results are there                         *)
(*                 "done"   main has returned                              *)
(*                 "exit"   exit(EXIT_FAILURE) was called                  *)
(*                 "abort"  the assert failed                              *)
(*   lex         struct lexer: cursor, tokens                              *)
(*   parser      struct parser's current_index, with the call stack of the *)
(*               parser functions and the value last returned              *)
(*   root        the tree parse returned                                   *)
(*   compiler    the call stack of compile_ast_to_bytecode                 *)
(*   chunks      struct chunk: code, constants                             *)
(*   stack_vm    struct vm: ip, stack, top                                 *)
(*   result, eval_result   the locals of process_expression                *)
(*   out         what was printed on stdout                                *)
(*   error       the message printed on stderr ("none" when none), and     *)
(*   err_pos     the position it names (-1 when none)                      *)
(*   exit_status the status of the process (-1 while it runs)              *)
(***************************************************************************)
VARIABLES source, phase, lex, parser, root, compiler, chunks, stack_vm, result,
          eval_result, out, error, err_pos, exit_status

vars == <<source, phase, lex, parser, root, compiler, chunks, stack_vm, result,
          eval_result, out, error, err_pos, exit_status>>

EXIT_SUCCESS == 0
EXIT_FAILURE == 1
\* the status of a process ended by abort(): 128 + SIGABRT
ABORTED == 134

NULL == [type |-> "NULL"]

\* exit(EXIT_FAILURE) after a message on stderr
Fatal(msg, pos) ==
    /\ phase' = "exit"
    /\ error' = msg
    /\ err_pos' = pos
    /\ exit_status' = EXIT_FAILURE

NoFatal == UNCHANGED <<error, err_pos, exit_status>>

(***************************************************************************)
(* The lexer.                                                              *)
(***************************************************************************)
create_token(kind, value, start, end) ==
    [kind |-> kind, value |-> value, start |-> start, end |-> end]

\* the token put before the others
PrependToken(lx, tok) == [lx EXCEPT !.tokens = <<tok>> \o @]

append_token(lx, tok) == [lx EXCEPT !.tokens = Append(@, tok)]

is_part_of_number(c) == isdigit(c) \/ c \in {".", "e", "E", "+", "-"}

RECURSIVE ScanNumber(_, _)
\* the while loop of parse_number: the cursor after the run
ScanNumber(src, cursor) ==
    IF cursor < Len(src) /\ is_part_of_number(src[cursor + 1])
       /\ ~isspace(src[cursor + 1])
    THEN ScanNumber(src, cursor + 1)
    ELSE cursor

\* parse_number(lex, source): the lexer after it, and the error it exits with
parse_number(lx, src) ==
    LET start == lx.cursor
        cursor == ScanNumber(src, start)
        digits_len == cursor - start
        digits == SubSeq(src, start + 1, cursor)
        conv == strtod(digits)
        moved == [lx EXCEPT !.cursor = cursor]
    IN IF digits_len = 0
       THEN [lex |-> moved, err |-> "InvalidCharacter", pos |-> cursor]
       ELSE IF conv.erange \/ conv.end # digits_len
       THEN [lex |-> moved, err |-> "InvalidNumber", pos |-> -1]
       ELSE [lex |-> append_token(moved,
                        create_token("NUMBER", conv.val, start, start + digits_len - 1)),
             err |-> "none", pos |-> -1]

\* the token kind of a one-character operator or parenthesis
OperatorKind(c) ==
    CASE c = "-" -> "MINUS"
      [] c = "+" -> "PLUS"
      [] c = "*" -> "STAR"
      [] c = "/" -> "SLASH"
      [] c = "%" -> "PERCENT"
      [] c = "^" -> "CARET"
      [] c = "(" -> "LPAREN"
      [] c = ")" -> "RPAREN"
      [] OTHER -> "NONE"

\* One iteration of tokenize's while loop: the lexer after it and the error
\* it exits with.
tokenize_step(lx, src) ==
    LET cursor == lx.cursor
        character == src[cursor + 1]
        number == (character = "-" /\ cursor + 1 < Len(src) /\ isdigit(src[cursor + 2]))
                  \/ isdigit(character)
    IN IF isspace(character)
       THEN [lex |-> [lx EXCEPT !.cursor = cursor + 1], err |-> "none", pos |-> -1]
       ELSE IF number
       THEN parse_number(lx, src)
       ELSE IF OperatorKind(character) # "NONE"
       THEN [lex |-> [append_token(lx, create_token(OperatorKind(character),
                                                    character, cursor, cursor))
                        EXCEPT !.cursor = cursor + 1],
             err |-> "none", pos |-> -1]
       ELSE [lex |-> lx, err |-> "UnknownToken", pos |-> cursor]

\* tokenize: one iteration of the while loop
LexStep ==
    /\ phase = "lex"
    /\ lex.cursor < Len(source)
    /\ LET r == tokenize_step(lex, source)
       IN /\ lex' = r.lex
          /\ IF r.err = "none"
             THEN phase' = "lex" /\ NoFatal
             ELSE Fatal(r.err, r.pos)
    /\ UNCHANGED <<source, parser, root, compiler, chunks, stack_vm, result, eval_result, out>>

(***************************************************************************)
(* The parser.  parse_expression and parse_prefix call each other; their   *)
(* activations are the frames of parser.frames (the last is the running    *)
(* one), each with the place it is at:                                     *)
(*   parse_expression  "enter"         at its first line                   *)
(*                     "after_prefix"  parse_prefix has returned           *)
(*                     "after_rhs"     the recursive call has returned     *)
(*   parse_prefix      "enter"         at its first line                   *)
(*                     "after_unary"   parse_expression(10) has returned   *)
(*                     "after_paren"   parse_expression(0) has returned    *)
(* parser.ret is the value the last return gave.  One step runs the        *)
(* running frame up to its next call, return or exit.                      *)
(***************************************************************************)
\* left binding powers on a scale that passes UNARY_DEFAULT
ScaledBindingPowers(kind) ==
    CASE kind \in {"PLUS", "MINUS"} -> 10
      [] kind \in {"STAR", "SLASH", "PERCENT"} -> 20
      [] kind = "CARET" -> 40
      [] OTHER -> 0

get_left_binding_power(kind) ==
    CASE kind \in {"PLUS", "MINUS"} -> 1
      [] kind \in {"STAR", "SLASH", "PERCENT"} -> 2
      [] kind = "CARET" -> 4
      [] OTHER -> 0

\* right binding powers under which ^ groups like the other operators
SameBindingPowers(kind) == get_left_binding_power(kind)

get_right_binding_power(kind) ==
    CASE kind \in {"PLUS", "MINUS"} -> 1
      [] kind \in {"STAR", "SLASH", "PERCENT"} -> 2
      [] kind = "CARET" -> 3
      [] OTHER -> 0

create_number_node(value, start, end) ==
    [type |-> "NODE_NUMBER", value |-> value, start |-> start, end |-> end]

create_unary_node(op, child, start, end) ==
    [type |-> "NODE_UNARY", op |-> op, child |-> child, start |-> start, end |-> end]

create_binary_node(op, left, right, start, end) ==
    [type |-> "NODE_BINARY", op |-> op, left |-> left, right |-> right,
     start |-> start, end |-> end]

NoToken == create_token("NONE", "", -1, -1)

ExpressionFrame(binding_power) ==
    [fn |-> "parse_expression", pc |-> "enter", binding_power |-> binding_power,
     tok |-> NoToken, lhs |-> NULL, operator |-> NoToken]

PrefixFrame(token) ==
    [fn |-> "parse_prefix", pc |-> "enter", binding_power |-> 0,
     tok |-> token, lhs |-> NULL, operator |-> NoToken]

TopFrame(p) == p.frames[Len(p.frames)]

\* the running frame returns v to its caller
Return(p, v) ==
    [parser |-> [p EXCEPT !.frames = SubSeq(@, 1, Len(@) - 1), !.ret = v],
     err |-> "none", pos |-> -1]

\* the running frame, now f, calls a function whose activation is callee
Call(p, f, callee) ==
    [parser |-> [p EXCEPT !.frames = Append([@ EXCEPT ![Len(@)] = f], callee)],
     err |-> "none", pos |-> -1]

\* exit(EXIT_FAILURE) in the running frame
ParseExit(p, msg, pos) == [parser |-> p, err |-> msg, pos |-> pos]

\* get_next_token: the token, the parser after it, whether it exits
get_next_token(p, tokens) ==
    IF tokens[p.current_index + 1].kind = "END_OF_FILE"
    THEN [parser |-> p, tok |-> NoToken, eof |-> TRUE]
    ELSE [parser |-> [p EXCEPT !.current_index = @ + 1],
          tok |-> tokens[p.current_index + 1], eof |-> FALSE]

\* parse_expression from the head of its while loop, lhs in hand
ExpressionLoop(p, f, lhs, tokens) ==
    LET next == tokens[p.current_index + 1]
        left_binding_power == get_left_binding_power(next.kind)
        got == get_next_token(p, tokens)
    IN IF next.kind = "END_OF_FILE" \/ left_binding_power <= f.binding_power
       THEN Return(p, lhs)
       ELSE Call(got.parser,
                 [f EXCEPT !.pc = "after_rhs", !.lhs = lhs, !.operator = got.tok],
                 ExpressionFrame(get_right_binding_power(got.tok.kind)))

parse_expression(p, f, tokens) ==
    CASE f.pc = "enter" ->
            LET got == get_next_token(p, tokens)
            IN IF tokens[p.current_index + 1].kind = "END_OF_FILE"
               THEN Return(p, NULL)
               ELSE Call(got.parser, [f EXCEPT !.pc = "after_prefix", !.tok = got.tok],
                         PrefixFrame(got.tok))
      [] f.pc = "after_prefix" ->
            IF p.ret = NULL
            THEN ParseExit(p, "ExpectedLhs", -1)
            ELSE ExpressionLoop(p, f, p.ret, tokens)
      [] f.pc = "after_rhs" ->
            IF p.ret = NULL
            THEN ParseExit(p, "ExpectedRhs", -1)
            ELSE ExpressionLoop(p, f,
                     create_binary_node(f.operator.kind, f.lhs, p.ret,
                                        f.lhs.start, p.ret.end),
                     tokens)

parse_prefix(p, f, tokens) ==
    CASE f.pc = "enter" ->
            IF f.tok.kind = "NUMBER"
            THEN Return(p, create_number_node(f.tok.value, f.tok.start, f.tok.end))
            ELSE IF f.tok.kind \in {"MINUS", "PLUS"}
            THEN Call(p, [f EXCEPT !.pc = "after_unary"], ExpressionFrame(UNARY_DEFAULT))
            ELSE IF f.tok.kind = "LPAREN"
            THEN Call(p, [f EXCEPT !.pc = "after_paren"], ExpressionFrame(0))
            ELSE ParseExit(p, "InvalidPrefixToken", -1)
      [] f.pc = "after_unary" ->
            IF p.ret = NULL
            THEN ParseExit(p, "ExpectedRhs", -1)
            ELSE Return(p, create_unary_node(f.tok.kind, p.ret, f.tok.start, f.tok.end))
      [] f.pc = "after_paren" ->
            LET got == get_next_token(p, tokens)
            IN IF p.ret = NULL
               THEN ParseExit(p, "ExpectedExpression", -1)
               ELSE IF got.eof
               THEN ParseExit(p, "EOF", -1)
               ELSE IF got.tok.kind # "RPAREN"
               THEN ParseExit(got.parser, "ExpectedCloseParen", got.tok.start)
               ELSE Return(got.parser, p.ret)

\* one step of the parser: the running frame up to its next call, return or exit
parse_step(p, tokens) ==
    IF TopFrame(p).fn = "parse_expression"
    THEN parse_expression(p, TopFrame(p), tokens)
    ELSE parse_prefix(p, TopFrame(p), tokens)

\* tokenize: the loop has ended, the END_OF_FILE token is appended; then
\* parse sets up the parser and calls parse_expression(&parser, 0)
LexEnd ==
    /\ phase = "lex"
    /\ lex.cursor >= Len(source)
    /\ lex' = append_token(lex, create_token("END_OF_FILE", "", lex.cursor, lex.cursor))
    /\ parser' = [current_index |-> 0, frames |-> <<ExpressionFrame(0)>>, ret |-> NULL]
    /\ phase' = "parse"
    /\ NoFatal
    /\ UNCHANGED <<source, root, compiler, chunks, stack_vm, result, eval_result, out>>

\* parse: one step of parse_expression/parse_prefix; when the outermost
\* parse_expression returns, parse returns its value to process_expression
ParseStep ==
    /\ phase = "parse"
    /\ LET r == parse_step(parser, lex.tokens)
       IN /\ parser' = r.parser
          /\ IF r.err # "none"
             THEN Fatal(r.err, r.pos) /\ UNCHANGED root
             ELSE /\ NoFatal
                  /\ IF r.parser.frames = <<>>
                     THEN phase' = "parsed" /\ root' = r.parser.ret
                     ELSE phase' = "parse" /\ UNCHANGED root
    /\ UNCHANGED <<source, lex, compiler, chunks, stack_vm, result, eval_result, out>>

(***************************************************************************)
(* The compiler.                                                           *)
(***************************************************************************)
\* the opcodes with OP_NEGATE taken for the opcode of the binary '-'
MinusAsNegate(kind) ==
    CASE kind = "NUMBER" -> "OP_CONSTANT"
      [] kind = "PLUS" -> "OP_ADD"
      [] kind = "MINUS" -> "OP_NEGATE"
      [] kind = "STAR" -> "OP_MULTIPLY"
      [] kind = "SLASH" -> "OP_DIVIDE"
      [] kind = "PERCENT" -> "OP_MODULO"
      [] kind = "CARET" -> "OP_POWER"
      [] OTHER -> "OP_HALT"

get_opcode_from_token_kind(kind) ==
    CASE kind = "NUMBER" -> "OP_CONSTANT"
      [] kind = "PLUS" -> "OP_ADD"
      [] kind = "MINUS" -> "OP_SUBTRACT"
      [] kind = "STAR" -> "OP_MULTIPLY"
      [] kind = "SLASH" -> "OP_DIVIDE"
      [] kind = "PERCENT" -> "OP_MODULO"
      [] kind = "CARET" -> "OP_POWER"
      [] OTHER -> "OP_HALT"

\* init_chunks
init_chunks == [code |-> <<>>, constants |-> <<>>]

\* add_constant appends value; the index it returns is Len(constants) before
add_constant(ch, value) == [ch EXCEPT !.constants = Append(@, value)]

\* an instruction emitted without its const_index
EmitWithoutIndex(ch, code, const_index) ==
    [ch EXCEPT !.code = Append(@, [code |-> code, const_index |-> 0])]

emit_bytecode(ch, code, const_index) ==
    [ch EXCEPT !.code = Append(@, [code |-> code, const_index |-> const_index])]

\* compile_ast_to_bytecode calls itself; its activations are the frames of
\* compiler.frames (the last is the running one), each with its node and the
\* place it is at:
\*   "enter"        at its first line
\*   "after_child"  the call on unary.child has returned
\*   "after_left"   the call on binary.left has returned
\*   "after_right"  the call on binary.right has returned
\* One step runs the running frame up to its next call, return or exit, and
\* gives the frames and the chunk after it, and the error it exits with.
CompileFrame(node) == [node |-> node, pc |-> "enter"]

CompileReturn(c, ch) ==
    [compiler |-> [c EXCEPT !.frames = SubSeq(@, 1, Len(@) - 1)], chunks |-> ch,
     err |-> "none"]

CompileCall(c, ch, pc, node) ==
    [compiler |-> [c EXCEPT !.frames =
                        Append([@ EXCEPT ![Len(@)].pc = pc], CompileFrame(node))],
     chunks |-> ch, err |-> "none"]

compile_ast_to_bytecode(c, ch) ==
    LET f == c.frames[Len(c.frames)]
        node == f.node
    IN CASE f.pc = "enter" ->
              (CASE node = NULL -> CompileReturn(c, ch)
                 [] node.type = "NODE_NUMBER" ->
                      CompileReturn(c, emit_bytecode(add_constant(ch, node.value),
                                                     "OP_CONSTANT", Len(ch.constants)))
                 [] node.type = "NODE_UNARY" -> CompileCall(c, ch, "after_child", node.child)
                 [] node.type = "NODE_BINARY" -> CompileCall(c, ch, "after_left", node.left))
         [] f.pc = "after_child" ->
              IF node.op = "MINUS" THEN CompileReturn(c, emit_bytecode(ch, "OP_NEGATE", 0))
              ELSE IF node.op = "PLUS" THEN CompileReturn(c, ch)
              ELSE [compiler |-> c, chunks |-> ch, err |-> "NoSuchUnaryOperator"]
         [] f.pc = "after_left" -> CompileCall(c, ch, "after_right", node.right)
         [] f.pc = "after_right" ->
              CompileReturn(c, emit_bytecode(ch, get_opcode_from_token_kind(node.op), 0))

(***************************************************************************)
(* The virtual machine.  stack holds stack[0 .. top-1]; what the array     *)
(* holds above top is never read.  push and pop give the machine after     *)
(* them and the error they exit with.                                      *)
(***************************************************************************)
\* push without the check of top
PushUnchecked(vm, value) ==
    [vm |-> [vm EXCEPT !.stack = Append(@, value), !.top = @ + 1], err |-> "none"]

\* push that lets top reach MAX_STACK_SIZE + 1
PushOneMore(vm, value) ==
    IF vm.top > MAX_STACK_SIZE
    THEN [vm |-> vm, err |-> "StackOverflow"]
    ELSE [vm |-> [vm EXCEPT !.stack = Append(@, value), !.top = @ + 1], err |-> "none"]

push(vm, value) ==
    IF vm.top >= MAX_STACK_SIZE
    THEN [vm |-> vm, err |-> "StackOverflow"]
    ELSE [vm |-> [vm EXCEPT !.stack = Append(@, value), !.top = @ + 1], err |-> "none"]

pop(vm) ==
    IF vm.top <= 0
    THEN [vm |-> vm, value |-> PZero, err |-> "StackUnderflow"]
    ELSE [vm |-> [vm EXCEPT !.stack = SubSeq(@, 1, vm.top - 1), !.top = @ - 1],
          value |-> vm.stack[vm.top], err |-> "none"]

VmExit(vm, msg) == [vm |-> vm, err |-> msg, halted |-> FALSE, value |-> PZero]

\* push(value) with ip left where it is
PushWithoutAdvance(vm, value) ==
    LET pushed == push(vm, value)
    IN IF pushed.err # "none" THEN VmExit(pushed.vm, pushed.err)
       ELSE [vm |-> pushed.vm, err |-> "none", halted |-> FALSE, value |-> value]

\* push(value), then ip += 1
PushNext(vm, value) ==
    LET pushed == push(vm, value)
    IN IF pushed.err # "none" THEN VmExit(pushed.vm, pushed.err)
       ELSE [vm |-> [pushed.vm EXCEPT !.ip = @ + 1], err |-> "none",
             halted |-> FALSE, value |-> value]

\* the value an arithmetic instruction pushes
BinaryValue(code, lhs, rhs) ==
    CASE code = "OP_ADD" -> FAdd(lhs, rhs)
      [] code = "OP_SUBTRACT" -> FSub(lhs, rhs)
      [] code = "OP_MULTIPLY" -> FMul(lhs, rhs)
      [] code = "OP_DIVIDE" -> FDiv(lhs, rhs)
      [] code = "OP_MODULO" -> Ffmod(lhs, rhs)
      [] code = "OP_POWER" -> Fpow(lhs, rhs)

\* no instruction checks its right operand
NoDivideCheck(code, rhs) == FALSE

\* whether the instruction exits with "Division by zero" on this right operand
DivideCheck(code, rhs) == code \in {"OP_DIVIDE", "OP_MODULO"} /\ FEq(rhs, PZero)

BinaryInstruction(vm, code) ==
    LET r == pop(vm)
        l == pop(r.vm)
    IN IF r.err # "none" THEN VmExit(r.vm, r.err)
       ELSE IF l.err # "none" THEN VmExit(l.vm, l.err)
       ELSE IF DivideCheck(code, r.value) THEN VmExit(l.vm, "DivisionByZero")
       ELSE PushNext(l.vm, BinaryValue(code, l.value, r.value))

\* One iteration of run_vm's loop on the instruction at ip:
\* [vm, err, halted, value]; value is what was pushed, or returned at HALT.
run_vm_step(vm, ch) ==
    LET instruction == ch.code[vm.ip + 1]
        code == instruction.code
    IN CASE code = "OP_CONSTANT" ->
              IF instruction.const_index >= Len(ch.constants)
              THEN VmExit(vm, "undefined")
              ELSE PushNext(vm, ch.constants[instruction.const_index + 1])
         [] code = "OP_NEGATE" ->
              LET v == pop(vm)
              IN IF v.err # "none" THEN VmExit(v.vm, v.err)
                 ELSE PushNext(v.vm, FNeg(v.value))
         [] code \in {"OP_ADD", "OP_SUBTRACT", "OP_MULTIPLY", "OP_DIVIDE",
                      "OP_MODULO", "OP_POWER"} ->
              BinaryInstruction(vm, code)
         [] code = "OP_HALT" ->
              LET v == pop(vm)
              IN IF v.err # "none" THEN VmExit(v.vm, v.err)
                 ELSE [vm |-> v.vm, err |-> "none", halted |-> TRUE, value |-> v.value]
         [] OTHER -> VmExit(vm, "UnknownOpcode")

(***************************************************************************)
(* The evaluator: the value, and the error eval_ast exits with.            *)
(***************************************************************************)
RECURSIVE eval_ast(_)
eval_ast(node) ==
    CASE node.type = "NODE_NUMBER" -> [value |-> node.value, err |-> "none"]
      [] node.type = "NODE_UNARY" ->
            LET child == eval_ast(node.child)
            IN IF node.op \notin {"MINUS", "PLUS"}
               THEN [value |-> PZero, err |-> "UnknownUnaryOperator"]
               ELSE IF child.err # "none" THEN child
               ELSE IF node.op = "MINUS"
               THEN [value |-> FNeg(child.value), err |-> "none"]
               ELSE child
      [] node.type = "NODE_BINARY" ->
            LET lhs == eval_ast(node.left)
                rhs == eval_ast(node.right)
                op == node.op
            IN IF lhs.err # "none" THEN lhs
               ELSE IF rhs.err # "none" THEN rhs
               ELSE CASE op = "PLUS" -> [value |-> FAdd(lhs.value, rhs.value), err |-> "none"]
                      [] op = "MINUS" -> [value |-> FSub(lhs.value, rhs.value), err |-> "none"]
                      [] op = "SLASH" ->
                            IF FEq(rhs.value, PZero)
                            THEN [value |-> PZero, err |-> "DivisionByZero"]
                            ELSE [value |-> FDiv(lhs.value, rhs.value), err |-> "none"]
                      [] op = "STAR" -> [value |-> FMul(lhs.value, rhs.value), err |-> "none"]
                      [] op = "CARET" -> [value |-> Fpow(lhs.value, rhs.value), err |-> "none"]
                      [] op = "PERCENT" ->
                            IF FEq(rhs.value, PZero)
                            THEN [value |-> PZero, err |-> "DivisionByZero"]
                            ELSE [value |-> Ffmod(lhs.value, rhs.value), err |-> "none"]
                      [] OTHER -> [value |-> PZero, err |-> "UnknownBinaryOperator"]

(***************************************************************************)
(* process_expression after parse, and main's return.                      *)
(***************************************************************************)
\* no expression is ever taken for empty
NeverEmpty(node) == FALSE

\* if (!root) in process_expression
IsEmptyExpression(node) == node = NULL

\* root is NULL: "Error: Empty expression", return, and main returns 0.
\* Otherwise init_chunks and the call of compile_ast_to_bytecode on root.
Compile ==
    /\ phase = "parsed"
    /\ IF IsEmptyExpression(root)
       THEN /\ phase' = "done"
            /\ error' = "EmptyExpression"
            /\ exit_status' = EXIT_SUCCESS
            /\ UNCHANGED <<err_pos, chunks, compiler>>
       ELSE /\ chunks' = init_chunks
            /\ compiler' = [frames |-> <<CompileFrame(root)>>]
            /\ phase' = "compile"
            /\ NoFatal
    /\ UNCHANGED <<source, lex, parser, root, stack_vm, result, eval_result, out>>

\* One step of compile_ast_to_bytecode.  When the outermost call returns,
\* process_expression emits OP_HALT and sets up the struct vm.
CompileStep ==
    /\ phase = "compile"
    /\ LET r == compile_ast_to_bytecode(compiler, chunks)
       IN /\ compiler' = r.compiler
          /\ IF r.err # "none"
             THEN Fatal(r.err, -1) /\ chunks' = r.chunks /\ UNCHANGED stack_vm
             ELSE IF r.compiler.frames = <<>>
             THEN /\ chunks' = emit_bytecode(r.chunks, "OP_HALT", 0)
                  /\ stack_vm' = [ip |-> 0, stack |-> <<>>, top |-> 0]
                  /\ phase' = "vm"
                  /\ NoFatal
             ELSE /\ chunks' = r.chunks
                  /\ phase' = "compile"
                  /\ NoFatal
                  /\ UNCHANGED stack_vm
    /\ UNCHANGED <<source, lex, parser, root, result, eval_result, out>>

\* run_vm: one iteration of its loop.  An instruction fetched outside the
\* code written (or a constant outside the pool) is undefined behaviour:
\* phase "undefined" stands for whatever the process then does.  A step whose
\* value is outside the window of doubles modelled is not taken.
VMStep ==
    /\ phase = "vm"
    /\ IF stack_vm.ip >= Len(chunks.code)
       THEN /\ phase' = "undefined"
            /\ UNCHANGED <<stack_vm, result, error, err_pos, exit_status>>
       ELSE LET r == run_vm_step(stack_vm, chunks)
            IN /\ ~IsUnrep(r.value)
               /\ stack_vm' = r.vm
               /\ IF r.err = "undefined"
                  THEN phase' = "undefined" /\ NoFatal /\ UNCHANGED result
                  ELSE IF r.err # "none"
                  THEN Fatal(r.err, -1) /\ UNCHANGED result
                  ELSE IF r.halted
                  THEN phase' = "eval" /\ result' = r.value /\ NoFatal
                  ELSE phase' = "vm" /\ NoFatal /\ UNCHANGED result
    /\ UNCHANGED <<source, lex, parser, root, compiler, chunks, eval_result, out>>

\* double eval_result = eval_ast(root)
Eval ==
    /\ phase = "eval"
    /\ LET r == eval_ast(root)
       IN /\ ~IsUnrep(r.value)
          /\ IF r.err # "none"
             THEN Fatal(r.err, -1) /\ UNCHANGED eval_result
             ELSE phase' = "assert" /\ eval_result' = r.value /\ NoFatal
    /\ UNCHANGED <<source, lex, parser, root, compiler, chunks, stack_vm, result, out>>

\* assert(result == eval_result), the two printf, and main's return 0
Report ==
    /\ phase = "assert"
    /\ IF FEq(result, eval_result)
       THEN /\ out' = <<[label |-> "VM Result", value |-> result],
                        [label |-> "Eval Result", value |-> eval_result]>>
            /\ phase' = "done"
            /\ exit_status' = EXIT_SUCCESS
            /\ UNCHANGED <<error, err_pos>>
       ELSE /\ phase' = "abort"
            /\ error' = "AssertionFailed"
            /\ exit_status' = ABORTED
            /\ UNCHANGED <<out, err_pos>>
    /\ UNCHANGED <<source, lex, parser, root, compiler, chunks, stack_vm, result, eval_result>>

(***************************************************************************)
(* The expressions checked.                                                *)
(*                                                                         *)
(* Bounds:                                                                 *)
(*   MaxLen       the longest source text over Alphabet                    *)
(*   MaxTokens    the longest sequence of tokens (END_OF_FILE apart)       *)
(*   MaxOperands  the most numbers in a chain  number op number op ...     *)
(*   DeepSlack    how far below and above MAX_STACK_SIZE the number of     *)
(*                leaves of the nested expressions goes                    *)
(***************************************************************************)
MaxLen == 3
MaxTokens == 4
MaxOperands == 3
DeepSlack == 1

\* The examples of the specification and of README.md.
\* "2+3*4"
Ex_2plus3times4 == <<"2", "+", "3", "*", "4">>
\* "(2+3)*4"
Ex_paren2plus3times4 == <<"(", "2", "+", "3", ")", "*", "4">>
\* "2^3^2"
Ex_2pow3pow2 == <<"2", "^", "3", "^", "2">>
\* "-2^2"
Ex_neg2pow2 == <<"-", "2", "^", "2">>
\* "23 + 57 * 8 - 42 / 7 % 19 ^ 4"
Ex_worked473 ==
    <<"2", "3", " ", "+", " ", "5", "7", " ", "*", " ", "8", " ", "-", " ",
      "4", "2", " ", "/", " ", "7", " ", "%", " ", "1", "9", " ", "^", " ",
      "4">>
\* "14 ^ 4 + 100 * 37 - 50 / 25 % 2 + (-47)"
Ex_worked42069 ==
    <<"1", "4", " ", "^", " ", "4", " ", "+", " ", "1", "0", "0", " ", "*",
      " ", "3", "7", " ", "-", " ", "5", "0", " ", "/", " ", "2", "5", " ",
      "%", " ", "2", " ", "+", " ", "(", "-", "4", "7", ")">>
\* "5 / 0"
Ex_5div0 == <<"5", " ", "/", " ", "0">>
\* "5 % 0"
Ex_5mod0 == <<"5", " ", "%", " ", "0">>
\* "2 + "
Ex_2plus == <<"2", " ", "+", " ">>
\* "(2+3"
Ex_unclosed == <<"(", "2", "+", "3">>
\* "@"
Ex_at == <<"@">>

Examples ==
    {Ex_2plus3times4, Ex_paren2plus3times4, Ex_2pow3pow2, Ex_neg2pow2,
     Ex_worked473, Ex_worked42069, Ex_5div0, Ex_5mod0,
     Ex_2plus, Ex_unclosed, Ex_at}

\* every sequence over S of length at most n
SeqsUpTo(S, n) == UNION {[1..k -> S] : k \in 0..n}

Alphabet == {"0", "2", "+", "-", "*", "/", "%", "^", "(", ")", " ", ".", "e", "@"}

\* every source text of at most MaxLen characters of Alphabet
Texts == SeqsUpTo(Alphabet, MaxLen)

RECURSIVE Render(_)
\* the words of ws, one space between two
Render(ws) ==
    IF ws = <<>> THEN <<>>
    ELSE IF Len(ws) = 1 THEN ws[1]
    ELSE ws[1] \o <<" ">> \o Render(Tail(ws))

\* The words a token is written as: two numbers, the operators, the
\* parentheses.  Set apart by spaces they lex to one token each.
NumberWords == {<<"2">>, <<"0">>}
OperatorWords == {<<"+">>, <<"-">>, <<"*">>, <<"/">>, <<"%">>, <<"^">>}
Words == NumberWords \cup OperatorWords \cup {<<"(">>, <<")">>}

\* the source texts of every token sequence of at most MaxTokens tokens
TokenTexts == {Render(ws) : ws \in SeqsUpTo(Words, MaxTokens)}

\* The chains operand op operand ... op operand of at most MaxOperands
\* operands: a number, a negated number or a parenthesised sum.
ChainNumbers == {<<"0">>, <<"-", "1">>, <<"(", "2", " ", "+", " ", "0", ")">>}

RECURSIVE Chains(_)
Chains(k) ==
    IF k = 1 THEN {<<w>> : w \in ChainNumbers}
    ELSE {c \o <<o, w>> : c \in Chains(k - 1), o \in OperatorWords, w \in ChainNumbers}

ChainTexts == {Render(ws) : ws \in UNION {Chains(k) : k \in 1..MaxOperands}}

\* The chains whose operands are a number, a negated number and a doubly
\* signed parenthesised product, between them one operator of each level.
UnaryOperands ==
    {<<"2">>, <<"-", " ", "2">>,
     <<"-", "+", "(", "2", "*", "2", ")">>}

\* one operator of each level
LevelWords == {<<"-">>, <<"*">>, <<"^">>}

RECURSIVE UnaryChains(_)
UnaryChains(k) ==
    IF k = 1 THEN {<<w>> : w \in UnaryOperands}
    ELSE {c \o <<o, w>> : c \in UnaryChains(k - 1), o \in LevelWords,
                          w \in UnaryOperands}

UnaryTexts == {Render(ws) : ws \in UNION {UnaryChains(k) : k \in 1..MaxOperands}}

\* 1 +(1 +( ... 1 ... )) with k leaves: it needs k operands pending
RightNested(k) ==
    [i \in 1..(5 * k - 4) |->
        IF i <= 4 * (k - 1) THEN <<"1", " ", "+", "(">>[((i - 1) % 4) + 1]
        ELSE IF i = 4 * k - 3 THEN "1"
        ELSE ")"]

\* 1 + 1 + ... + 1 with k leaves: it needs two operands pending
LeftNested(k) ==
    [i \in 1..(4 * k - 3) |-> <<"1", " ", "+", " ">>[((i - 1) % 4) + 1]]

\* the numbers of leaves around the capacity of the stack
DeepLeaves == (MAX_STACK_SIZE - DeepSlack)..(MAX_STACK_SIZE + DeepSlack)

NegatedRightNested(k) == <<"-", "(">> \o RightNested(k) \o <<")">>

DeepTexts ==
    {RightNested(k) : k \in DeepLeaves}
        \cup {LeftNested(MAX_STACK_SIZE + DeepSlack)}
        \cup {NegatedRightNested(MAX_STACK_SIZE)}

\* What compile_ast_to_bytecode and the final OP_HALT make of these texts
\* (DeepChunksAreCompiled below): for RightNested(k) the k constants, then
\* k - 1 OP_ADD; for LeftNested(k) a constant, then k - 1 times a constant
\* and OP_ADD; for NegatedRightNested(k) an OP_NEGATE after RightNested(k).
Instruction(code, const_index) == [code |-> code, const_index |-> const_index]

RightNestedChunk(k) ==
    [code |-> [i \in 1..(2 * k) |->
                  IF i <= k THEN Instruction("OP_CONSTANT", i - 1)
                  ELSE IF i < 2 * k THEN Instruction("OP_ADD", 0)
                  ELSE Instruction("OP_HALT", 0)],
     constants |-> [i \in 1..k |-> One]]

LeftNestedChunk(k) ==
    [code |-> [i \in 1..(2 * k) |->
                  IF i = 1 THEN Instruction("OP_CONSTANT", 0)
                  ELSE IF i = 2 * k THEN Instruction("OP_HALT", 0)
                  ELSE IF i % 2 = 0 THEN Instruction("OP_CONSTANT", i \div 2)
                  ELSE Instruction("OP_ADD", 0)],
     constants |-> [i \in 1..k |-> One]]

NegatedRightNestedChunk(k) ==
    [code |-> [i \in 1..(2 * k + 1) |->
                  IF i <= k THEN Instruction("OP_CONSTANT", i - 1)
                  ELSE IF i < 2 * k THEN Instruction("OP_ADD", 0)
                  ELSE IF i = 2 * k THEN Instruction("OP_NEGATE", 0)
                  ELSE Instruction("OP_HALT", 0)],
     constants |-> [i \in 1..k |-> One]]

\* text and chunk of each of the deep expressions
DeepCompiled ==
    {[source |-> RightNested(k), chunks |-> RightNestedChunk(k)] : k \in DeepLeaves}
        \cup {[source |-> LeftNested(MAX_STACK_SIZE + DeepSlack),
               chunks |-> LeftNestedChunk(MAX_STACK_SIZE + DeepSlack)]}
        \cup {[source |-> NegatedRightNested(MAX_STACK_SIZE),
               chunks |-> NegatedRightNestedChunk(MAX_STACK_SIZE)]}

\* the state when tokenize is called on one of the texts of S
InitOn(S) ==
    /\ source \in S
    /\ phase = "lex"
    /\ lex = [cursor |-> 0, tokens |-> <<>>]
    /\ parser = [current_index |-> 0, frames |-> <<>>, ret |-> NULL]
    /\ root = NULL
    /\ compiler = [frames |-> <<>>]
    /\ chunks = init_chunks
    /\ stack_vm = [ip |-> 0, stack |-> <<>>, top |-> 0]
    /\ result = PZero
    /\ eval_result = PZero
    /\ out = <<>>
    /\ error = "none"
    /\ err_pos = -1
    /\ exit_status = -1

Init == InitOn(Texts \cup Examples)
InitTokens == InitOn(TokenTexts \cup Examples)
InitChains == InitOn(ChainTexts \cup Examples)
InitUnary == InitOn(UnaryTexts \cup Examples)
InitDeepSource == InitOn(DeepTexts)

\* The state when run_vm is called on the chunk of one of the deep
\* expressions; of the rest of the state, which run_vm does not read, only
\* the text is kept.
InitRunVm(S) ==
    /\ \E c \in S : source = c.source /\ chunks = c.chunks
    /\ phase = "vm"
    /\ lex = [cursor |-> 0, tokens |-> <<>>]
    /\ parser = [current_index |-> 0, frames |-> <<>>, ret |-> NULL]
    /\ root = NULL
    /\ compiler = [frames |-> <<>>]
    /\ stack_vm = [ip |-> 0, stack |-> <<>>, top |-> 0]
    /\ result = PZero
    /\ eval_result = PZero
    /\ out = <<>>
    /\ error = "none"
    /\ err_pos = -1
    /\ exit_status = -1

InitDeep == InitOn(Examples) \/ InitRunVm(DeepCompiled)

Next ==
    \/ LexStep
    \/ LexEnd
    \/ ParseStep
    \/ Compile
    \/ CompileStep
    \/ VMStep
    \/ Eval
    \/ Report

\* the run up to the return of run_vm
NextToHalt ==
    \/ LexStep
    \/ LexEnd
    \/ ParseStep
    \/ Compile
    \/ CompileStep
    \/ VMStep

\* every text of at most MaxLen characters
Spec == Init /\ [][Next]_vars
\* every sequence of at most MaxTokens tokens
SpecTokens == InitTokens /\ [][Next]_vars
\* whether the process is still running: main has not returned, exit has
\* not been called and the assertion has not aborted it
Running == phase \notin {"done", "exit", "abort"}

\* the guards of LexStep, VMStep and Eval: the states where they take a step
LexStepEnabled == phase = "lex" /\ lex.cursor < Len(source)
VMStepEnabled ==
    /\ phase = "vm"
    /\ stack_vm.ip < Len(chunks.code) => ~IsUnrep(run_vm_step(stack_vm, chunks).value)
EvalEnabled == phase = "eval" /\ ~IsUnrep(eval_ast(root).value)

\* The same, the process never left standing: main runs tokenize, parse,
\* the compiler, run_vm and eval_ast one after the other on one thread, so
\* the step that is enabled is eventually taken: weak fairness of every
\* action.  For LexStep, VMStep and Eval it is written out with the guard of
\* the action in the place of ENABLED.
SpecTokensLive ==
    /\ InitTokens /\ [][Next]_vars
    /\ WF_vars(LexEnd) /\ WF_vars(ParseStep) /\ WF_vars(Compile)
    /\ WF_vars(CompileStep) /\ WF_vars(Report)
    /\ ([]<>(~LexStepEnabled) \/ []<><<LexStep>>_vars)
    /\ ([]<>(~VMStepEnabled) \/ []<><<VMStep>>_vars)
    /\ ([]<>(~EvalEnabled) \/ []<><<Eval>>_vars)
\* every chain of at most MaxOperands numbers
SpecChains == InitChains /\ [][Next]_vars
\* every chain of at most MaxOperands signed operands
SpecUnary == InitUnary /\ [][Next]_vars
\* the deep expressions from their text, up to the return of run_vm
SpecDeepSource == InitDeepSource /\ [][NextToHalt]_vars

\* the examples, and run_vm on the chunks of the deep expressions
SpecDeep == InitDeep /\ [][NextToHalt]_vars

\* Once compiled, the chunk of a deep expression is the one of DeepCompiled
\* (under SpecDeepSource).
DeepChunksAreCompiled ==
    phase = "vm" => [source |-> source, chunks |-> chunks] \in DeepCompiled

(***************************************************************************)
(* Properties.                                                             *)
(***************************************************************************)
\* the nodes of a tree
RECURSIVE Nodes(_)
Nodes(node) ==
    CASE node = NULL -> {}
      [] node.type = "NODE_NUMBER" -> {node}
      [] node.type = "NODE_UNARY" -> {node} \cup Nodes(node.child)
      [] node.type = "NODE_BINARY" -> {node} \cup Nodes(node.left) \cup Nodes(node.right)

\* the kinds of the tokens
Kinds(tokens) == [i \in 1..Len(tokens) |-> tokens[i].kind]

\* C1: when run_vm and eval_ast have both returned (the expression is valid
\* and no arithmetic error ended the run), result == eval_result, so the
\* assert of process_expression does not fail.
C1_OracleEquivalence ==
    /\ phase = "assert" => FEq(result, eval_result)
    /\ phase # "abort"

\* the part of C1 the code keeps: the two results are equal unless they are
\* NaN, and then both are
C1_EqualUnlessNaN ==
    phase = "assert"
        => IF IsNaN(result) \/ IsNaN(eval_result)
           THEN IsNaN(result) /\ IsNaN(eval_result)
           ELSE FEq(result, eval_result) /\ result = eval_result

\* The shape of a tree: a number is its value, a unary node <<op, child>>,
\* a binary node <<op, left, right>>.
RECURSIVE Shape(_)
Shape(node) ==
    CASE node.type = "NODE_NUMBER" -> node.value
      [] node.type = "NODE_UNARY" -> <<node.op, Shape(node.child)>>
      [] node.type = "NODE_BINARY" -> <<node.op, Shape(node.left), Shape(node.right)>>

\* The precedence levels of the grammar: + - lowest, then * / %, then ^.
BinaryKinds == {"PLUS", "MINUS", "STAR", "SLASH", "PERCENT", "CARET"}

Level(kind) ==
    CASE kind \in {"PLUS", "MINUS"} -> 1
      [] kind \in {"STAR", "SLASH", "PERCENT"} -> 2
      [] kind = "CARET" -> 3

\* how many parentheses are open before tokens[k], counted from tokens[i]
OpenBefore(tokens, i, k) ==
    Cardinality({m \in i..(k - 1) : tokens[m].kind = "LPAREN"})
        - Cardinality({m \in i..(k - 1) : tokens[m].kind = "RPAREN"})

\* the operators of tokens[i..j] outside every parenthesis
TopOperators(tokens, i, j) ==
    {k \in i..j : tokens[k].kind \in BinaryKinds /\ OpenBefore(tokens, i, k) = 0}

\* The shape the grammar gives tokens[i..j] read as numbers and
\* parenthesised operands separated by binary operators: the operand itself
\* where there is no operator outside the parentheses; else the split at
\* the last operator of the lowest level there (at the first, for ^).
\* NULL where tokens[i..j] is not of that form.
RECURSIVE GrammarShape(_, _, _)
GrammarShape(tokens, i, j) ==
    IF i > j THEN NULL
    ELSE IF i = j
    THEN IF tokens[i].kind = "NUMBER" THEN tokens[i].value ELSE NULL
    ELSE LET ops == TopOperators(tokens, i, j)
         IN IF ops = {}
            THEN IF tokens[i].kind = "LPAREN" /\ tokens[j].kind = "RPAREN"
                 THEN GrammarShape(tokens, i + 1, j - 1)
                 ELSE NULL
            ELSE LET low == CHOOSE l \in 1..3 :
                                /\ \E k \in ops : Level(tokens[k].kind) = l
                                /\ \A k \in ops : Level(tokens[k].kind) >= l
                     at == {k \in ops : Level(tokens[k].kind) = low}
                     k == IF low = 3
                          THEN CHOOSE m \in at : \A n \in at : m <= n
                          ELSE CHOOSE m \in at : \A n \in at : m >= n
                     left == GrammarShape(tokens, i, k - 1)
                     right == GrammarShape(tokens, k + 1, j)
                 IN IF left = NULL \/ right = NULL THEN NULL
                    ELSE <<tokens[k].kind, left, right>>

\* the shape the grammar gives the tokens before END_OF_FILE
Grammar == GrammarShape(lex.tokens, 1, Len(lex.tokens) - 1)

Num(k) == [n |-> k, d |-> 1]

\* (- (+ 23 (* 57 8)) (mod (/ 42 7) (expt 19 4)))
Shape_worked473 ==
    <<"MINUS", <<"PLUS", Num(23), <<"STAR", Num(57), Num(8)>>>>,
               <<"PERCENT", <<"SLASH", Num(42), Num(7)>>, <<"CARET", Num(19), Num(4)>>>>>>

\* the errors parse exits with
ParseErrors ==
    {"EOF", "ExpectedLhs", "ExpectedRhs", "ExpectedExpression", "ExpectedCloseParen",
     "InvalidPrefixToken"}

\* C2: for numbers (and parenthesised operands) separated by binary
\* operators, parse does not fail and returns the tree of the grammar: ^
\* tighter than * / %, these tighter than + -, + - and * / % grouping to the
\* left, ^ to the right, a parenthesis adding no node.  The worked example
\* gives (- (+ 23 (* 57 8)) (mod (/ 42 7) (expt 19 4))) and 473, and 2^3^2
\* gives 512.
C2_PrecedenceAndAssociativity ==
    /\ (phase = "parsed" /\ Grammar # NULL) => root # NULL /\ Shape(root) = Grammar
    /\ (phase = "exit" /\ error \in ParseErrors) => Grammar = NULL
    /\ (source = Ex_worked473 /\ phase \notin {"lex", "parse"})
        => /\ Shape(root) = Shape_worked473
           /\ phase = "done" => out[1].value = Num(473) /\ out[2].value = Num(473)
    /\ (source = Ex_2pow3pow2 /\ phase \notin {"lex", "parse"})
        => /\ Shape(root) = <<"CARET", Num(2), <<"CARET", Num(3), Num(2)>>>>
           /\ phase = "done" => out[1].value = Num(512) /\ out[2].value = Num(512)

\* 2 ^ 0 ^ 2 and the like parsed: ^ under ^ on the right
C2_Witness ==
    /\ phase = "parsed"
    /\ Grammar # NULL
    /\ root.type = "NODE_BINARY" /\ root.op = "CARET"
    /\ root.right.type = "NODE_BINARY" /\ root.right.op = "CARET"

\* The run of a numeric literal from start when a '+' or '-' belongs to it
\* only just after an 'e' or 'E' of the literal (or as the sign tokenize
\* lets it begin with): the cursor after the run.
RECURSIVE SignAfterExponentScan(_, _, _)
SignAfterExponentScan(src, start, cursor) ==
    IF cursor >= Len(src) THEN cursor
    ELSE LET c == src[cursor + 1]
             taken == \/ isdigit(c) \/ c \in {".", "e", "E"}
                      \/ /\ c \in {"+", "-"}
                         /\ \/ cursor = start
                            \/ cursor > start /\ src[cursor] \in {"e", "E"}
         IN IF taken THEN SignAfterExponentScan(src, start, cursor + 1) ELSE cursor

\* where the run parse_number has just scanned began: the first character
\* that is no space after the last token
LexemeStart ==
    LET from == IF lex.tokens = <<>> THEN 0 ELSE lex.tokens[Len(lex.tokens)].end + 1
    IN CHOOSE i \in from..Len(source) :
          /\ \A j \in from..(i - 1) : isspace(source[j + 1])
          /\ i < Len(source) => ~isspace(source[i + 1])

\* the numeric result printed, if the run got that far
Printed(v) == phase = "done" /\ out # <<>> /\ out[1].value = v /\ out[2].value = v

\* C3: parse_number takes a '+' or '-' into a numeric literal only just
\* after an 'e' or 'E' of that literal, so a digit run directly followed by
\* a '+' or '-' operator is tokenized as Number, operator, Number: "2+3*4"
\* evaluates to 14 and "(2+3)*4" to 20.
C3_SignOnlyAfterExponent ==
    /\ (phase = "exit" /\ error = "InvalidNumber")
        => lex.cursor = SignAfterExponentScan(source, LexemeStart, LexemeStart)
    /\ source = Ex_2plus3times4
        => /\ phase # "exit"
           /\ phase # "lex" => Kinds(lex.tokens)
                 = <<"NUMBER", "PLUS", "NUMBER", "STAR", "NUMBER", "END_OF_FILE">>
           /\ phase = "done" => Printed(Num(14))
    /\ source = Ex_paren2plus3times4
        => /\ phase # "exit"
           /\ phase = "done" => Printed(Num(20))

\* run_vm is at an OP_DIVIDE or OP_MODULO whose right operand, the top of
\* the stack, is zero
AtDivideByZero ==
    /\ phase = "vm"
    /\ stack_vm.ip < Len(chunks.code)
    /\ chunks.code[stack_vm.ip + 1].code \in {"OP_DIVIDE", "OP_MODULO"}
    /\ stack_vm.top >= 2
    /\ IsZero(stack_vm.stack[stack_vm.top])

\* a / or % node whose operands eval_ast evaluates, the right one to zero
DividesByZero(node) ==
    /\ node.type = "NODE_BINARY"
    /\ node.op \in {"SLASH", "PERCENT"}
    /\ eval_ast(node.left).err = "none"
    /\ eval_ast(node.right).err = "none"
    /\ IsZero(eval_ast(node.right).value)

\* the DivisionByZero error state: exit(EXIT_FAILURE), nothing printed
DivisionByZeroState ==
    /\ phase = "exit"
    /\ error = "DivisionByZero"
    /\ exit_status # EXIT_SUCCESS
    /\ out = <<>>

C4_State ==
    /\ error = "DivisionByZero" => DivisionByZeroState
    /\ (phase = "parsed" /\ root # NULL)
        => /\ \A node \in Nodes(root) :
                 DividesByZero(node) => eval_ast(node).err = "DivisionByZero"
           /\ (\E node \in Nodes(root) : DividesByZero(node))
                 => eval_ast(root).err = "DivisionByZero"
    /\ (phase \in {"eval", "assert", "done", "abort"} /\ root # NULL)
        => \A node \in Nodes(root) : ~DividesByZero(node)
    /\ source \in {Ex_5div0, Ex_5mod0}
        => /\ phase \notin {"eval", "assert", "done", "abort"}
           /\ phase = "exit" => error = "DivisionByZero"

C4_Step ==
    /\ AtDivideByZero => DivisionByZeroState'
    /\ phase # "exit"

\* C4: when the right operand of a / or % is zero, the run ends in the
\* DivisionByZero error state, with a nonzero exit status and no result
\* printed, and nothing follows; run_vm does so at OP_DIVIDE and OP_MODULO,
\* and eval_ast does so on every / or % node whose right operand it
\* evaluates to zero; "5 / 0" and "5 % 0" end so.
C4_DivisionByZero == []C4_State /\ [][C4_Step]_vars

\* the machine has exited at an OP_MODULO whose right operand was computed
C4_Witness ==
    /\ DivisionByZeroState
    /\ chunks.code[stack_vm.ip + 1].code = "OP_MODULO"
    /\ chunks.code[stack_vm.ip].code # "OP_CONSTANT"
    /\ \E node \in Nodes(root) : DividesByZero(node)

\* parse_prefix has consumed '(' and the inner expression has been parsed
AfterInnerExpression ==
    /\ phase = "parse"
    /\ TopFrame(parser).fn = "parse_prefix"
    /\ TopFrame(parser).pc = "after_paren"
    /\ parser.ret # NULL

\* the token that follows the inner expression
NextToken == lex.tokens[parser.current_index + 1]

C5_Step ==
    (AfterInnerExpression /\ NextToken.kind # "RPAREN")
        => /\ phase' = "exit"
           /\ error' = "ExpectedCloseParen"
           /\ err_pos' = NextToken.start

\* C5: when parse_prefix has consumed '(' and parsed the inner expression
\* and the next token is not ')', END_OF_FILE included, parsing fails with
\* ExpectedCloseParen at that token's offset.
C5_ExpectedCloseParen == [][C5_Step]_vars

\* the part of C5 the code keeps: a next token that is neither ')' nor
\* END_OF_FILE
C5_Step_NotEndOfFile ==
    (AfterInnerExpression /\ NextToken.kind \notin {"RPAREN", "END_OF_FILE"})
        => /\ phase' = "exit"
           /\ error' = "ExpectedCloseParen"
           /\ err_pos' = NextToken.start

C5_ExpectedCloseParen_NotEndOfFile == [][C5_Step_NotEndOfFile]_vars

\* The operands pending after the first i instructions of a chunk: those
\* pushed and not yet taken by an arithmetic instruction.
ArithmeticCodes ==
    {"OP_ADD", "OP_SUBTRACT", "OP_MULTIPLY", "OP_DIVIDE", "OP_MODULO", "OP_POWER"}

Pending(code, i) ==
    Cardinality({j \in 1..i : code[j].code = "OP_CONSTANT"})
        - Cardinality({j \in 1..i : code[j].code \in ArithmeticCodes})

\* the most operands pending at once when the chunk is run
PendingOperands(ch) ==
    CHOOSE m \in 0..Len(ch.code) :
        /\ \E i \in 0..Len(ch.code) : Pending(ch.code, i) = m
        /\ \A i \in 0..Len(ch.code) : Pending(ch.code, i) <= m

\* the same, counted on the tree: the right operand of a binary node is
\* evaluated with the left one pending
RECURSIVE TreeOperands(_)
TreeOperands(node) ==
    CASE node.type = "NODE_NUMBER" -> 1
      [] node.type = "NODE_UNARY" -> TreeOperands(node.child)
      [] node.type = "NODE_BINARY" ->
            LET l == TreeOperands(node.left)
                r == 1 + TreeOperands(node.right)
            IN IF l >= r THEN l ELSE r

\* exit(EXIT_FAILURE) after "Stack overflow"
StackOverflowState ==
    /\ phase = "exit"
    /\ error = "StackOverflow"
    /\ exit_status = EXIT_FAILURE

C6_State ==
    /\ error = "StackOverflow"
        => /\ StackOverflowState
           /\ stack_vm.top = MAX_STACK_SIZE
           /\ chunks.code[stack_vm.ip + 1].code = "OP_CONSTANT"
           /\ PendingOperands(chunks) > MAX_STACK_SIZE
    /\ phase = "eval" => PendingOperands(chunks) <= MAX_STACK_SIZE
    /\ (source = RightNested(MAX_STACK_SIZE + 1) /\ phase \in {"exit", "eval"})
        => StackOverflowState
    /\ (source = RightNested(MAX_STACK_SIZE) /\ phase \in {"exit", "eval"})
        => phase = "eval"
    /\ (phase = "vm" /\ stack_vm.ip = 0 /\ root # NULL)
        => PendingOperands(chunks) = TreeOperands(root)

C6_Step ==
    /\ (phase = "vm" /\ stack_vm.top < MAX_STACK_SIZE) => error' # "StackOverflow"
    /\ (phase = "vm" /\ stack_vm.top = MAX_STACK_SIZE
            /\ chunks.code[stack_vm.ip + 1].code = "OP_CONSTANT")
        => StackOverflowState'

\* C6: run_vm on the chunk of an expression that needs more than 255
\* operands pending at once, such as 1 +(1 +( ... )) with 256 leaves, ends
\* in the StackOverflow error state at the push that finds top = 255; on a
\* chunk that needs at most 255 it returns, without StackOverflow.
C6_StackBound == []C6_State /\ [][C6_Step]_vars

\* 1 +(1 +( ... )) with 256 leaves has overflowed the stack at its last leaf
C6_Witness ==
    /\ StackOverflowState
    /\ source = RightNested(MAX_STACK_SIZE + 1)
    /\ stack_vm.top = MAX_STACK_SIZE
    /\ stack_vm.ip = MAX_STACK_SIZE

\* C7: in every state of run_vm on a compiled chunk with its final OP_HALT,
\* 0 <= top <= 255, the stack holds top values, and ip indexes an
\* instruction of the chunk at every fetch; run_vm returns at the OP_HALT,
\* the last instruction.
C7_VmInvariant ==
    /\ phase # "undefined"
    /\ 0 <= stack_vm.top /\ stack_vm.top <= MAX_STACK_SIZE
    /\ Len(stack_vm.stack) = stack_vm.top
    /\ phase = "vm"
        => /\ 0 <= stack_vm.ip /\ stack_vm.ip < Len(chunks.code)
           /\ chunks.code[stack_vm.ip + 1].code = "OP_CONSTANT"
                => chunks.code[stack_vm.ip + 1].const_index < Len(chunks.constants)
    /\ phase = "eval"
        => /\ stack_vm.ip = Len(chunks.code) - 1
           /\ chunks.code[stack_vm.ip + 1].code = "OP_HALT"
           /\ stack_vm.top = 0

\* run_vm with the stack full: 255 values pushed, none taken yet
C7_Witness ==
    /\ phase = "vm"
    /\ stack_vm.top = MAX_STACK_SIZE
    /\ stack_vm.ip = MAX_STACK_SIZE
    /\ chunks.code[stack_vm.ip + 1].code = "OP_ADD"

\* tokenize has returned: it has not exited, and parse has the tokens
TokenizeReturned ==
    phase # "lex" /\ error \notin {"UnknownToken", "InvalidNumber", "InvalidCharacter"}

\* C8: when tokenize returns, for any source text, the empty one included,
\* the token sequence is not empty, its last token is END_OF_FILE and no
\* other is, the start offsets never decrease along the sequence, and
\* start <= end in every token.
C8_TokenSequence ==
    TokenizeReturned
        => LET tokens == lex.tokens
               n == Len(tokens)
           IN /\ n >= 1
              /\ tokens[n].kind = "END_OF_FILE"
              /\ \A i \in 1..(n - 1) : tokens[i].kind # "END_OF_FILE"
              /\ \A i \in 1..(n - 1) : tokens[i].start <= tokens[i + 1].start
              /\ \A i \in 1..n : tokens[i].start <= tokens[i].end

\* tokenize has returned a number of several characters after another
\* token, and END_OF_FILE
C8_Witness ==
    /\ TokenizeReturned
    /\ \E i \in 2..(Len(lex.tokens) - 1) :
          lex.tokens[i].kind = "NUMBER" /\ lex.tokens[i].start < lex.tokens[i].end

\* the children of a node
Children(node) ==
    CASE node.type = "NODE_UNARY" -> {node.child}
      [] node.type = "NODE_BINARY" -> {node.left, node.right}
      [] OTHER -> {}

\* the last number of the text of a node
RECURSIVE Rightmost(_)
Rightmost(node) ==
    CASE node.type = "NODE_NUMBER" -> node
      [] node.type = "NODE_UNARY" -> Rightmost(node.child)
      [] node.type = "NODE_BINARY" -> Rightmost(node.right)

\* a binary node spans its left operand's start to its right operand's end
BinarySpan(node) ==
    node.type = "NODE_BINARY"
        => node.start = node.left.start /\ node.end = node.right.end

\* C9: in every tree parse returns, the span of a Unary or Binary node ends
\* at the end of its rightmost descendant and contains the spans of all its
\* children; a Binary node spans exactly its left operand's start to its
\* right operand's end.
C9_SpanInvariant ==
    (phase = "parsed" /\ root # NULL)
        => \A node \in Nodes(root) :
              /\ BinarySpan(node)
              /\ \A child \in Children(node) :
                    node.start <= child.start /\ child.end <= node.end
              /\ node.end = Rightmost(node).end

\* the part of C9 the code keeps: the span of a Binary node
C9_BinarySpan ==
    (phase = "parsed" /\ root # NULL) => \A node \in Nodes(root) : BinarySpan(node)

\* parse has returned to process_expression
ParseReturned == TokenizeReturned /\ phase # "parse" /\ parser.frames = <<>>

\* process_expression has reported the empty expression and main returned 0,
\* with nothing compiled, run or printed
EmptyOutcome ==
    /\ phase = "done"
    /\ error = "EmptyExpression"
    /\ exit_status = EXIT_SUCCESS
    /\ out = <<>>
    /\ chunks = init_chunks
    /\ stack_vm = [ip |-> 0, stack |-> <<>>, top |-> 0]

C10_State ==
    /\ ParseReturned
        => /\ root = NULL <=> lex.tokens[1].kind = "END_OF_FILE"
           /\ \A node \in Nodes(root) : NULL \notin Children(node)
           /\ root = NULL => phase = "parsed" \/ EmptyOutcome
    /\ (TokenizeReturned /\ lex.tokens[1].kind = "END_OF_FILE") => phase # "exit"
    /\ error = "EmptyExpression" => EmptyOutcome /\ root = NULL

C10_Step ==
    (phase = "parsed" /\ root = NULL) => EmptyOutcome'

\* C10: parse returns NULL only when the first token is END_OF_FILE, and
\* then it does; for any other token sequence it returns a tree with no
\* NULL child anywhere or exits.  On NULL process_expression reports the
\* empty expression, prints no result, runs neither the virtual machine nor
\* the evaluator, and the process ends with status 0.
C10_NoExpression == []C10_State /\ [][C10_Step]_vars

\* the empty expression has been reported
C10_Witness == ParseReturned /\ root = NULL /\ EmptyOutcome


\* ---- compile_ast_to_bytecode is the post-order encoding -----------------
\* the opcode of a binary operator
BinaryOpcode(op) ==
    CASE op = "PLUS" -> "OP_ADD"
      [] op = "MINUS" -> "OP_SUBTRACT"
      [] op = "STAR" -> "OP_MULTIPLY"
      [] op = "SLASH" -> "OP_DIVIDE"
      [] op = "PERCENT" -> "OP_MODULO"
      [] op = "CARET" -> "OP_POWER"
      [] OTHER -> "none"

\* The post-order encoding of node appended to ch: a number is one pool
\* entry and CONSTANT of its index, a unary minus the child then NEGATE, a
\* unary plus the child alone, a binary node left, right, then its opcode.
RECURSIVE PostOrder(_, _)
PostOrder(node, ch) ==
    CASE node.type = "NODE_NUMBER" ->
            [code |-> Append(ch.code, Instruction("OP_CONSTANT", Len(ch.constants))),
             constants |-> Append(ch.constants, node.value)]
      [] node.type = "NODE_UNARY" ->
            LET child == PostOrder(node.child, ch)
            IN IF node.op = "MINUS"
               THEN [child EXCEPT !.code = Append(@, Instruction("OP_NEGATE", 0))]
               ELSE child
      [] node.type = "NODE_BINARY" ->
            LET right == PostOrder(node.right, PostOrder(node.left, ch))
            IN [right EXCEPT !.code = Append(@, Instruction(BinaryOpcode(node.op), 0))]

\* the values of the Number leaves, left to right
RECURSIVE Leaves(_)
Leaves(node) ==
    CASE node.type = "NODE_NUMBER" -> <<node.value>>
      [] node.type = "NODE_UNARY" -> Leaves(node.child)
      [] node.type = "NODE_BINARY" -> Leaves(node.left) \o Leaves(node.right)

IsPrefix(s, t) == Len(s) <= Len(t) /\ s = SubSeq(t, 1, Len(s))

\* the opcodes of the instructions of a chunk
Opcodes(ch) == {ch.code[i].code : i \in 1..Len(ch.code)}

\* every CONSTANT names an entry of the pool
ValidConstIndexes(ch) ==
    \A i \in 1..Len(ch.code) :
        ch.code[i].code = "OP_CONSTANT"
            => ch.code[i].const_index \in 0..(Len(ch.constants) - 1)

\* parse has returned a tree and process_expression has compiled it and
\* appended OP_HALT
Compiled == root # NULL /\ phase \notin {"parsed", "compile"}

\* C11: compile_ast_to_bytecode appends exactly the post-order encoding of
\* the tree parse returned.  While it runs, the chunk is a prefix of that
\* encoding, so it holds no OP_HALT and no OP_PLUS, and every CONSTANT names
\* an entry of the pool; it never exits.  Once it has returned and the
\* caller has appended OP_HALT, the code is the encoding followed by the one
\* OP_HALT, and the pool is the values of the Number leaves from left to
\* right, equal values included.
C11_PostOrderEncoding ==
    /\ error # "NoSuchUnaryOperator"
    /\ phase = "compile"
        => /\ IsPrefix(chunks.code, PostOrder(root, init_chunks).code)
           /\ IsPrefix(chunks.constants, PostOrder(root, init_chunks).constants)
           /\ Opcodes(chunks) \cap {"OP_HALT", "OP_PLUS"} = {}
           /\ ValidConstIndexes(chunks)
    /\ Compiled
        => /\ chunks.code = Append(PostOrder(root, init_chunks).code,
                                   Instruction("OP_HALT", 0))
           /\ chunks.constants = Leaves(root)
           /\ "OP_PLUS" \notin Opcodes(chunks)
           /\ \A i \in 1..Len(chunks.code) :
                  chunks.code[i].code = "OP_HALT" <=> i = Len(chunks.code)
           /\ ValidConstIndexes(chunks)

\* "+ 2 * 2" compiled: the unary plus adds nothing and the two equal leaves
\* have an entry each
C11_Witness ==
    /\ Compiled
    /\ root.type = "NODE_BINARY"
    /\ root.left.type = "NODE_UNARY"
    /\ root.left.op = "PLUS"
    /\ root.left.child.type = "NODE_NUMBER"
    /\ root.right.type = "NODE_NUMBER"
    /\ root.left.child.value = root.right.value
    /\ chunks.constants = <<root.right.value, root.right.value>>
    /\ chunks.code = <<Instruction("OP_CONSTANT", 0), Instruction("OP_CONSTANT", 1),
                       Instruction(BinaryOpcode(root.op), 0),
                       Instruction("OP_HALT", 0)>>


\* ---- a prefix operator binds one primary --------------------------------
PrefixKinds == {"PLUS", "MINUS"}

\* the index of the token that starts at offset start
TokenAt(tokens, start) == CHOOSE i \in 1..Len(tokens) : tokens[i].start = start

\* The index of the last token of the primary that begins at tokens[i]: a
\* number is itself, a prefix operator goes with the primary after it, a
\* parenthesis runs to the one that closes it.  0 where there is none.
RECURSIVE PrimaryEnd(_, _)
PrimaryEnd(tokens, i) ==
    IF i > Len(tokens) THEN 0
    ELSE CASE tokens[i].kind = "NUMBER" -> i
           [] tokens[i].kind \in PrefixKinds -> PrimaryEnd(tokens, i + 1)
           [] tokens[i].kind = "LPAREN" ->
                LET closes == {m \in (i + 1)..Len(tokens) :
                                  /\ tokens[m].kind = "RPAREN"
                                  /\ OpenBefore(tokens, i, m + 1) = 0}
                IN IF closes = {} THEN 0
                   ELSE CHOOSE m \in closes : \A n \in closes : m <= n
           [] OTHER -> 0

\* the first token from tokens[i] on that opens no parenthesis
RECURSIVE AfterParens(_, _)
AfterParens(tokens, i) ==
    IF i < Len(tokens) /\ tokens[i].kind = "LPAREN" THEN AfterParens(tokens, i + 1)
    ELSE i

\* the offset a node's text begins at, parentheses apart
RECURSIVE FirstStart(_)
FirstStart(node) ==
    IF node.type = "NODE_BINARY" THEN FirstStart(node.left) ELSE node.start

\* a node, the right operand of a binary node of it, the child of a unary one
RECURSIVE RightSpine(_)
RightSpine(node) ==
    CASE node.type = "NODE_NUMBER" -> {node}
      [] node.type = "NODE_UNARY" -> {node} \cup RightSpine(node.child)
      [] node.type = "NODE_BINARY" -> {node} \cup RightSpine(node.right)

Unaries(node) == {u \in Nodes(node) : u.type = "NODE_UNARY"}

\* Whether an operator of kind next takes the operand between it and a
\* preceding operator of kind prev: it is of a higher level, or both are ^.
Tighter(next, prev) ==
    Level(next) > Level(prev) \/ (Level(next) = 3 /\ Level(prev) = 3)

\* Whether the operator after the primary of the unary node whose operator
\* is tokens[k] takes that node as its left operand: the node begins the
\* expression or a parenthesis, or follows a binary operator that binds its
\* right operand less tightly.  It does not when the node is the operand of
\* another prefix operator or follows a binary operator that binds as tightly.
TakesUnary(tree, tokens, k, next) ==
    IF k = 1 THEN TRUE
    ELSE IF tokens[k - 1].kind = "LPAREN" THEN TRUE
    ELSE IF \E v \in Unaries(tree) : v.start = tokens[k - 1].start THEN FALSE
    ELSE Tighter(next, tokens[k - 1].kind)

\* parse_expression(UNARY_DEFAULT) has just returned to parse_prefix
AfterUnaryOperand ==
    /\ phase = "parse"
    /\ parser.frames # <<>>
    /\ TopFrame(parser).fn = "parse_prefix"
    /\ TopFrame(parser).pc = "after_unary"
    /\ parser.ret # NULL

\* the tree of a unary node u: its child is the one primary after its
\* operator, and the binary operator after that primary, if there is one,
\* has u in its left operand
UnaryBindsPrimary(tree, tokens, u) ==
    LET k == TokenAt(tokens, u.start)
        j == PrimaryEnd(tokens, k + 1)
    IN /\ tokens[k].kind = u.op
       /\ j > 0
       /\ u.child.type = "NODE_BINARY" => tokens[k + 1].kind = "LPAREN"
       /\ tokens[k + 1].kind # "LPAREN"
            => u.child.start = tokens[k + 1].start /\ u.child.end = tokens[k + 1].end
       /\ tokens[j + 1].kind \in BinaryKinds
            => \E b \in Nodes(tree) :
                  /\ b.type = "NODE_BINARY"
                  /\ b.op = tokens[j + 1].kind
                  /\ FirstStart(b.right) = tokens[AfterParens(tokens, j + 2)].start
                  /\ u \in RightSpine(b.left)
                  /\ u \notin Nodes(b.right)
                  /\ \A v \in Unaries(tree) : b \notin Nodes(v.child) \/ u \in Nodes(v.child)
                  /\ u = b.left <=> TakesUnary(tree, tokens, k, tokens[j + 1].kind)

Final == ~Running

\* the step the running process is at can be taken: the value it computes
\* is one of the doubles modelled
StepTaken ==
    /\ phase = "vm" => ~IsUnrep(run_vm_step(stack_vm, chunks).value)
    /\ phase = "eval" => ~IsUnrep(eval_ast(root).value)

\* the instruction run_vm is at
CurrentInstruction == chunks.code[stack_vm.ip + 1]

C13_State ==
    /\ phase # "undefined"
    /\ phase \in {"lex", "parse", "parsed", "compile", "vm", "eval", "assert",
                  "done", "exit", "abort"}
    /\ phase = "lex" => lex.cursor <= Len(source)
    /\ phase = "parse"
        => /\ parser.current_index \in 0..(Len(lex.tokens) - 1)
           /\ \A i \in 1..parser.current_index : lex.tokens[i].kind # "END_OF_FILE"
    /\ phase = "vm" => stack_vm.ip \in 0..(Len(chunks.code) - 1)
    /\ StepTaken
    /\ phase = "done"
        => \/ root = NULL /\ error = "EmptyExpression" /\ out = <<>>
           \/ root # NULL /\ error = "none" /\ Len(out) = 2
    /\ phase = "exit" => error # "none" /\ exit_status = EXIT_FAILURE /\ out = <<>>

C13_Step ==
    /\ (phase = "lex" /\ lex.cursor < Len(source) /\ phase' = "lex")
        => lex'.cursor > lex.cursor
    /\ phase = "lex" => lex'.cursor >= lex.cursor
    /\ (phase = "parse" /\ phase' \in {"parse", "parsed", "exit"})
        => /\ parser'.current_index \in {parser.current_index, parser.current_index + 1}
           /\ parser'.current_index = parser.current_index + 1
                => lex.tokens[parser.current_index + 1].kind # "END_OF_FILE"
           /\ (Len(parser'.frames) > Len(parser.frames)
               /\ TopFrame(parser').fn = "parse_prefix")
                => /\ parser'.current_index = parser.current_index + 1
                   /\ TopFrame(parser').tok = lex.tokens[parser'.current_index]
           /\ (Len(parser'.frames) > Len(parser.frames)
               /\ TopFrame(parser).pc \in {"after_prefix", "after_rhs"})
                => /\ parser'.current_index = parser.current_index + 1
                   /\ parser'.frames[Len(parser.frames)].operator
                        = lex.tokens[parser'.current_index]
    /\ phase = "vm"
        => /\ stack_vm'.ip >= stack_vm.ip
           /\ (CurrentInstruction.code # "OP_HALT" /\ phase' = "vm")
                => stack_vm'.ip = stack_vm.ip + 1
           /\ phase' # "vm"
                => \/ phase' = "eval" /\ CurrentInstruction.code = "OP_HALT"
                   \/ phase' = "exit" /\ error' \in {"StackOverflow", "StackUnderflow",
                                                    "DivisionByZero", "UnknownOpcode"}
           /\ CurrentInstruction.code = "OP_HALT" => phase' # "vm"

\* C13: on every input the process ends: the results are printed, the
\* empty expression is reported, or a fatal error (the failed assertion
\* among them) ends it.  On the way the cursor of tokenize grows at every
\* iteration, current_index grows by one with every token the parser takes
\* and stays at or before the END_OF_FILE token, and the ip of run_vm grows
\* by exactly one after every instruction but OP_HALT and never falls, so
\* run_vm stops at OP_HALT or at a fatal error.
C13_Termination == <>Final /\ []C13_State /\ [][C13_Step]_vars

\* a run that went through every stage and printed its results: tokenize
\* read the whole text, parse took every token, run_vm stopped at OP_HALT
C13_Witness ==
    /\ phase = "done"
    /\ Len(out) = 2
    /\ lex.cursor = Len(source)
    /\ Len(lex.tokens) >= 4
    /\ parser.current_index = Len(lex.tokens) - 1
    /\ stack_vm.ip = Len(chunks.code) - 1
    /\ stack_vm.ip >= 3


\* ---- the stack discipline of compiled code ------------------------------
\* how many instructions the code of a tree has
RECURSIVE CodeLen(_)
CodeLen(node) ==
    CASE node.type = "NODE_NUMBER" -> 1
      [] node.type = "NODE_UNARY" ->
            CodeLen(node.child) + (IF node.op = "MINUS" THEN 1 ELSE 0)
      [] node.type = "NODE_BINARY" -> CodeLen(node.left) + CodeLen(node.right) + 1

\* The code of every subtree of node, the code of node beginning at the
\* instruction numbered first (from 1): <<first, last>> of each.
RECURSIVE Segments(_, _)
Segments(node, first) ==
    LET own == {<<first, first + CodeLen(node) - 1>>}
    IN CASE node.type = "NODE_NUMBER" -> own
         [] node.type = "NODE_UNARY" -> own \cup Segments(node.child, first)
         [] node.type = "NODE_BINARY" ->
               own \cup Segments(node.left, first)
                   \cup Segments(node.right, first + CodeLen(node.left))

\* run_vm has returned
VmReturned == root # NULL /\ phase \in {"eval", "assert", "done", "abort"}

\* C14: the chunk compiled from a tree parse returned, with its OP_HALT,
\* never makes run_vm exit with "Stack underflow" or "Unknown opcode".
\* Before each instruction top is the number of operands the instructions
\* before it leave pending; over the code of each subtree that number
\* never falls to where it was at the start and ends exactly one above it;
\* at OP_HALT the stack holds exactly one value, and when run_vm has
\* returned top is 0.
C14_StackDiscipline ==
    /\ error \notin {"StackUnderflow", "UnknownOpcode"}
    /\ (phase = "vm" /\ root # NULL)
        => /\ stack_vm.top = Pending(chunks.code, stack_vm.ip)
           /\ Len(stack_vm.stack) = stack_vm.top
           /\ CurrentInstruction.code = "OP_HALT" => stack_vm.top = 1
           /\ \A seg \in Segments(root, 1) :
                 /\ seg[2] < Len(chunks.code)
                 /\ Pending(chunks.code, seg[2]) = Pending(chunks.code, seg[1] - 1) + 1
                 /\ \A i \in seg[1]..seg[2] :
                       Pending(chunks.code, i) >= Pending(chunks.code, seg[1] - 1) + 1
                 /\ stack_vm.ip = seg[2]
                       => stack_vm.top = Pending(chunks.code, seg[1] - 1) + 1
    /\ VmReturned => stack_vm.top = 0 /\ stack_vm.stack = <<>>

\* run_vm is at the OP_HALT of a chunk with a negation and two binary
\* operators: one value is on the stack
C14_Witness ==
    /\ phase = "vm"
    /\ root # NULL
    /\ CurrentInstruction.code = "OP_HALT"
    /\ stack_vm.top = 1
    /\ "OP_NEGATE" \in Opcodes(chunks)
    /\ Cardinality({i \in 1..Len(chunks.code) : chunks.code[i].code \in ArithmeticCodes}) >= 2


\* ---- parse and the tokens after the expression --------------------------
\* the token current_index points at
AtToken == lex.tokens[parser.current_index + 1]

\* parse has returned a tree
ParsedTree == phase \notin {"lex", "parse"} /\ root # NULL

\* the tokens of the text: number number
NumberNumber == Kinds(lex.tokens) = <<"NUMBER", "NUMBER", "END_OF_FILE">>

\* C15: whenever parse returns a tree current_index points at the
\* END_OF_FILE token: every token before it has been consumed.  Tokens left
\* over after a complete expression (NUMBER NUMBER, NUMBER RPAREN, NUMBER
\* LPAREN NUMBER RPAREN) end in a fatal syntax error; no tree is returned
\* for them and nothing is evaluated.
C15_WholeInputConsumed ==
    /\ ParsedTree => AtToken.kind = "END_OF_FILE"
    /\ (phase \notin {"lex", "parse"}
        /\ \/ NumberNumber
           \/ Kinds(lex.tokens) = <<"NUMBER", "RPAREN", "END_OF_FILE">>
           \/ Kinds(lex.tokens) = <<"NUMBER", "LPAREN", "NUMBER", "RPAREN", "END_OF_FILE">>)
        => /\ phase = "exit"
           /\ error \in ParseErrors
           /\ root = NULL
           /\ out = <<>>

\* What parse does: the outermost parse_expression stops at the first token
\* whose left binding power is 0, END_OF_FILE or not, and returns the tree
\* of the tokens before it; the run goes on with that tree.
C15_StopsAtFirstNonOperator ==
    ParsedTree
        => /\ get_left_binding_power(AtToken.kind) = 0
           /\ AtToken.kind \in {"NUMBER", "LPAREN", "RPAREN", "END_OF_FILE"}
           /\ parser.current_index >= 1
           /\ NumberNumber
                => /\ Shape(root) = lex.tokens[1].value
                   /\ phase = "done" => Printed(lex.tokens[1].value)

====
